---------------------------- MODULE Spec2Model ----------------------------
(***************************************************************************)
(* A model of chonker.py: the hierarchical chunk splitter (smart_chunker,  *)
(* split_oversized_text_block, split_by_lines), its size metrics, its      *)
(* sentence segmenter, its two cleaning passes and the metric selection of *)
(* main.  A Python str is a sequence of one-character strings.             *)
(***************************************************************************)
EXTENDS Integers, Sequences, FiniteSets, TLC

(***************************************************************************)
(* Bounds of the model.                                                    *)
(***************************************************************************)
\* longest input document and longest chunk handed to a cleaning pass, in
\* pieces (of TextPieces, of ChunkPieces)
MaxPieces == 4
\* largest max_size, chunk_size and max_tokens tried
MaxSizeLimit == 2
\* the non-zero min_size, min_size option and min_tokens option tried
MinFloor == 2
\* largest title_token_limit tried
MaxTitleLimit == 1
\* longest argument of split_into_sentences, in characters
MaxSentenceLen == 6

(***************************************************************************)
(* Characters and their classes (str.isspace, str.isalnum, \w, [A-Z],      *)
(* [a-z]) over the characters the model uses.                              *)
(***************************************************************************)
Upper == {"A"}
Lower == {"a", "b"}
Space == {" ", "\n", "\r"}
Terminal == {".", "?", "!"}

isspace(ch) == ch \in Space
isalnum(ch) == ch \in Upper \cup Lower
IsWordChar(ch) == isalnum(ch) \/ ch = "_"

(***************************************************************************)
(* str methods.                                                            *)
(***************************************************************************)
RECURSIVE lstrip(_)
lstrip(s) ==
    IF s = <<>> THEN <<>>
    ELSE IF isspace(Head(s)) THEN lstrip(Tail(s)) ELSE s

RECURSIVE rstrip(_)
rstrip(s) ==
    IF s = <<>> THEN <<>>
    ELSE IF isspace(s[Len(s)]) THEN rstrip(SubSeq(s, 1, Len(s) - 1)) ELSE s

strip(s) == rstrip(lstrip(s))

startswith(s, prefix) ==
    /\ Len(prefix) <= Len(s)
    /\ SubSeq(s, 1, Len(prefix)) = prefix

\* str.index / str.find: the first position (1-based) of sep in s, 0 if none
index(s, sep) ==
    LET hits == {i \in 1..(Len(s) - Len(sep) + 1) :
                    SubSeq(s, i, i + Len(sep) - 1) = sep}
    IN  IF hits = {} THEN 0 ELSE CHOOSE i \in hits : \A j \in hits : i <= j

\* str.split(sep): the pieces between the non-overlapping occurrences of
\* sep, found left to right
RECURSIVE split(_, _)
split(s, sep) ==
    LET p == index(s, sep)
    IN  IF p = 0 THEN <<s>>
        ELSE <<SubSeq(s, 1, p - 1)>> \o split(SubSeq(s, p + Len(sep), Len(s)), sep)

\* sep.join(parts)
RECURSIVE join(_, _)
join(parts, sep) ==
    IF parts = <<>> THEN <<>>
    ELSE IF Len(parts) = 1 THEN parts[1]
    ELSE parts[1] \o sep \o join(Tail(parts), sep)

\* str.replace('\r\n', '\n')
RECURSIVE replace_crlf(_)
replace_crlf(s) ==
    IF s = <<>> THEN <<>>
    ELSE IF Len(s) >= 2 /\ s[1] = "\r" /\ s[2] = "\n"
         THEN <<"\n">> \o replace_crlf(SubSeq(s, 3, Len(s)))
         ELSE <<Head(s)>> \o replace_crlf(Tail(s))

(***************************************************************************)
(* SizeEstimator: the two size metrics.                                    *)
(***************************************************************************)
\* the loop of estimate_token_count: the tokens counted in s when the scan
\* enters it with the flag in_word
RECURSIVE count_tokens(_, _)
count_tokens(s, in_word) ==
    IF s = <<>> THEN 0
    ELSE LET ch == Head(s) IN
         IF ~isalnum(ch)
         THEN (IF ~isspace(ch) THEN 1 ELSE 0) + count_tokens(Tail(s), FALSE)
         ELSE (IF ~in_word THEN 1 ELSE 0) + count_tokens(Tail(s), TRUE)

\* int(token_count * 1.08)
estimate_token_count(text) ==
    IF text = <<>> THEN 0 ELSE (count_tokens(text, FALSE) * 108) \div 100

\* size_func(s): len or estimate_token_count
SizeFuncs == {"len", "estimate_token_count"}
size_of(size_func_, s) ==
    IF size_func_ = "len" THEN Len(s) ELSE estimate_token_count(s)

(***************************************************************************)
(* SentenceSegmenter.                                                      *)
(*   re.split(r'(?<!\w\.\w.)(?<![A-Z][a-z]\.)(?<=\.|\?|!)\s', text)        *)
(***************************************************************************)
\* (?<!\w\.\w.) fails at position i: the four characters before it are a
\* word character, a period, a word character and any character but \n
lookbehind_initials(text, i) ==
    /\ i >= 5
    /\ IsWordChar(text[i - 4])
    /\ text[i - 3] = "."
    /\ IsWordChar(text[i - 2])
    /\ text[i - 1] # "\n"

\* (?<![A-Z][a-z]\.) fails at position i
lookbehind_title(text, i) ==
    /\ i >= 4
    /\ text[i - 3] \in Upper
    /\ text[i - 2] \in Lower
    /\ text[i - 1] = "."

\* the regex matches the single character at position i
sentence_break(text, i) ==
    /\ i \in 1..Len(text)
    /\ isspace(text[i])
    /\ i >= 2
    /\ text[i - 1] \in Terminal
    /\ ~lookbehind_initials(text, i)
    /\ ~lookbehind_title(text, i)

\* re.split: the pieces of text between the matches, the scan at position i
\* and the current piece starting at position from
RECURSIVE re_split(_, _, _)
re_split(text, from, i) ==
    IF i > Len(text) THEN <<SubSeq(text, from, Len(text))>>
    ELSE IF sentence_break(text, i)
         THEN <<SubSeq(text, from, i - 1)>> \o re_split(text, i + 1, i + 1)
         ELSE re_split(text, from, i + 1)

RECURSIVE strip_nonempty(_)
strip_nonempty(parts) ==
    IF parts = <<>> THEN <<>>
    ELSE (IF strip(Head(parts)) # <<>> THEN <<strip(Head(parts))>> ELSE <<>>)
         \o strip_nonempty(Tail(parts))

split_into_sentences(text) == strip_nonempty(re_split(text, 1, 1))

(***************************************************************************)
(* ContentCleaner.                                                         *)
(***************************************************************************)
\* good_lines with the line.strip() left out
RECURSIVE good_lines_unstripped(_, _)
good_lines_unstripped(lines_, prefix) ==
    IF lines_ = <<>> THEN <<>>
    ELSE (IF ~startswith(Head(lines_), prefix) THEN <<Head(lines_)>> ELSE <<>>)
         \o good_lines_unstripped(Tail(lines_), prefix)
RECURSIVE good_lines(_, _)
good_lines(lines_, prefix) ==
    IF lines_ = <<>> THEN <<>>
    ELSE (IF ~startswith(strip(Head(lines_)), prefix) THEN <<Head(lines_)>> ELSE <<>>)
         \o good_lines(Tail(lines_), prefix)

\* a prefix of None and a prefix of '' are both the empty sequence
remove_lines_starting_with(chunk, prefix) ==
    IF prefix = <<>> THEN chunk
    ELSE join(good_lines(split(chunk, <<"\n">>), prefix), <<"\n">>)

\* remove_leading_title with < in place of <= max_title_tokens
remove_leading_title_strict(chunk, max_title_tokens, size_func_) ==
    IF max_title_tokens <= 0 THEN chunk
    ELSE LET split_pos == index(chunk, <<"\n", "\n">>) IN
         IF split_pos = 0 THEN chunk
         ELSE LET potential_title == strip(SubSeq(chunk, 1, split_pos - 1)) IN
              IF /\ potential_title # <<>>
                 /\ size_of(size_func_, potential_title) < max_title_tokens
                 /\ \A k \in 1..Len(potential_title) : potential_title[k] \notin Terminal
              THEN lstrip(SubSeq(chunk, split_pos, Len(chunk)))
              ELSE chunk
remove_leading_title(chunk, max_title_tokens, size_func_) ==
    IF max_title_tokens <= 0 THEN chunk
    ELSE LET split_pos == index(chunk, <<"\n", "\n">>) IN
         IF split_pos = 0 THEN chunk
         ELSE LET potential_title == strip(SubSeq(chunk, 1, split_pos - 1)) IN
              IF /\ potential_title # <<>>
                 /\ size_of(size_func_, potential_title) <= max_title_tokens
                 /\ \A k \in 1..Len(potential_title) : potential_title[k] \notin Terminal
              THEN lstrip(SubSeq(chunk, split_pos, Len(chunk)))
              ELSE chunk

(***************************************************************************)
(* State.  options and selected are main's argparse namespace and the      *)
(* metric it selects; then the arguments of smart_chunker and the locals   *)
(* of its three nested loops; pc is the place the control is at.           *)
(***************************************************************************)
VARIABLES
    options, selected,
    text, max_size, min_size, size_func, title_token_limit, line_start_prefix,
    pc,
    chapters, paragraphs, current_chunk, final_chunks,
    sentences, current_sub_chunk, sub_chunks,
    lines, current_line_chunk, line_chunks

cli == <<options, selected>>
params == <<max_size, min_size, size_func, title_token_limit, line_start_prefix>>
paragraph_level == <<chapters, paragraphs, current_chunk, final_chunks>>
sentence_level == <<sentences, current_sub_chunk, sub_chunks>>
line_level == <<lines, current_line_chunk, line_chunks>>
vars == <<cli, text, params, pc, paragraph_level, sentence_level, line_level>>

CHAPTER_DELIMITER == <<"\n", "\n", "\n">>
PARAGRAPH_DELIMITER == <<"\n", "\n">>

\* Python's None, and an int option that was given
None == <<>>
Given(n) == <<n>>

(***************************************************************************)
(* Input documents: the concatenations of at most MaxPieces pieces: a      *)
(* letter, a period, a Windows line end, a line end followed by an         *)
(* indented line, a paragraph break followed by an indented line.          *)
(***************************************************************************)
TextPieces ==
    {<<"a">>, <<".">>, <<"\r", "\n">>, <<"\n", " ">>, <<"\n", "\n", " ">>}

RECURSIVE concat(_)
concat(parts) == IF parts = <<>> THEN <<>> ELSE Head(parts) \o concat(Tail(parts))

PieceTexts(pieces) ==
    {concat(ps) : ps \in UNION {[1..n -> pieces] : n \in 0..MaxPieces}}

Texts == PieceTexts(TextPieces)

(***************************************************************************)
(* The two size tests of the three loops, and finalization: clean, then    *)
(* keep the chunk if it reaches min_size.                                  *)
(***************************************************************************)
\* size_func(prospective_chunk) <= max_size (fits_off_by_one: the same test
\* against max_size + 1)
fits_off_by_one(chunk) == size_of(size_func, chunk) <= max_size + 1
fits(chunk) == size_of(size_func, chunk) <= max_size

\* size_func(paragraph) > max_size, size_func(sentence) > max_size
\* (oversized_inclusive: the same test with >=)
oversized_inclusive(unit) == size_of(size_func, unit) >= max_size
oversized(unit) == size_of(size_func, unit) > max_size

processed_chunk(chunk) ==
    remove_lines_starting_with(
        remove_leading_title(chunk, title_token_limit, size_func),
        line_start_prefix)

\* finalize_chunk, finalize_sub_chunk and finalize_line_chunk: the list out
\* after the call (finalize_chunk_dropping_empty: with a guard against a
\* chunk that cleaning emptied; finalize_line_chunk_no_floor: without the
\* min_size test)
finalize_chunk_dropping_empty(chunk, out) ==
    IF /\ chunk # <<>>
       /\ processed_chunk(chunk) # <<>>
       /\ size_of(size_func, processed_chunk(chunk)) >= min_size
    THEN Append(out, processed_chunk(chunk))
    ELSE out
finalize_chunk(chunk, out) ==
    IF chunk # <<>> /\ size_of(size_func, processed_chunk(chunk)) >= min_size
    THEN Append(out, processed_chunk(chunk))
    ELSE out

finalize_sub_chunk(chunk, out) ==
    IF chunk # <<>> /\ size_of(size_func, processed_chunk(chunk)) >= min_size
    THEN Append(out, processed_chunk(chunk))
    ELSE out

finalize_line_chunk_no_floor(chunk, out) ==
    IF chunk # <<>> THEN Append(out, processed_chunk(chunk)) ELSE out
finalize_line_chunk(chunk, out) ==
    IF chunk # <<>> /\ size_of(size_func, processed_chunk(chunk)) >= min_size
    THEN Append(out, processed_chunk(chunk))
    ELSE out

(***************************************************************************)
(* smart_chunker, called with its six arguments.                           *)
(***************************************************************************)
NoOptions ==
    [chunk_size |-> None, max_tokens |-> None, min_size |-> 0, min_tokens |-> 0,
     remove_title |-> 0, remove_line_start |-> None]
NotSelected == [size_func |-> "len", max_size |-> None, min_size |-> 0]

Locals ==
    /\ chapters = <<>> /\ paragraphs = <<>> /\ current_chunk = <<>> /\ final_chunks = <<>>
    /\ sentences = <<>> /\ current_sub_chunk = <<>> /\ sub_chunks = <<>>
    /\ lines = <<>> /\ current_line_chunk = <<>> /\ line_chunks = <<>>

Init ==
    /\ options = NoOptions /\ selected = NotSelected
    /\ text \in Texts
    /\ max_size \in 0..MaxSizeLimit
    /\ min_size \in {0, MinFloor}
    /\ size_func \in SizeFuncs
    /\ title_token_limit \in {0, MaxTitleLimit}
    /\ line_start_prefix \in {<<>>, <<".">>}
    /\ pc = "start"
    /\ Locals

\* lines 53-54, 63: normalise the text and split it into chapters
Start ==
    /\ pc = "start"
    /\ chapters' = split(strip(replace_crlf(text)), CHAPTER_DELIMITER)
    /\ final_chunks' = <<>>
    /\ pc' = "chapters"
    /\ UNCHANGED <<cli, text, params, paragraphs, current_chunk, sentence_level, line_level>>

\* lines 64-66: an empty chapter is skipped
SkipChapter ==
    /\ pc = "chapters" /\ chapters # <<>>
    /\ strip(Head(chapters)) = <<>>
    /\ chapters' = Tail(chapters)
    /\ UNCHANGED <<cli, text, params, pc, paragraphs, current_chunk, final_chunks,
                   sentence_level, line_level>>

\* lines 64-67: the next chapter is split into paragraphs
EnterChapter ==
    /\ pc = "chapters" /\ chapters # <<>>
    /\ strip(Head(chapters)) # <<>>
    /\ paragraphs' = split(strip(Head(chapters)), PARAGRAPH_DELIMITER)
    /\ current_chunk' = <<>>
    /\ chapters' = Tail(chapters)
    /\ pc' = "paragraphs"
    /\ UNCHANGED <<cli, text, params, final_chunks, sentence_level, line_level>>

\* line 83
Return ==
    /\ pc = "chapters" /\ chapters = <<>>
    /\ pc' = "done"
    /\ UNCHANGED <<cli, text, params, paragraph_level, sentence_level, line_level>>

paragraph == strip(Head(paragraphs))
prospective_chunk ==
    IF current_chunk = <<>> THEN paragraph
    ELSE current_chunk \o PARAGRAPH_DELIMITER \o paragraph

\* lines 69-70
SkipParagraph ==
    /\ pc = "paragraphs" /\ paragraphs # <<>>
    /\ paragraph = <<>>
    /\ paragraphs' = Tail(paragraphs)
    /\ UNCHANGED <<cli, text, params, pc, chapters, current_chunk, final_chunks,
                   sentence_level, line_level>>

\* lines 71-73
AcceptParagraph ==
    /\ pc = "paragraphs" /\ paragraphs # <<>>
    /\ paragraph # <<>>
    /\ fits(prospective_chunk)
    /\ current_chunk' = prospective_chunk
    /\ paragraphs' = Tail(paragraphs)
    /\ UNCHANGED <<cli, text, params, pc, chapters, final_chunks, sentence_level, line_level>>

\* lines 74-76, 80-81
StartParagraph ==
    /\ pc = "paragraphs" /\ paragraphs # <<>>
    /\ paragraph # <<>>
    /\ ~fits(prospective_chunk)
    /\ ~oversized(paragraph)
    /\ final_chunks' = finalize_chunk(current_chunk, final_chunks)
    /\ current_chunk' = paragraph
    /\ paragraphs' = Tail(paragraphs)
    /\ UNCHANGED <<cli, text, params, pc, chapters, sentence_level, line_level>>

\* lines 74-77 and 86: the paragraph goes to split_oversized_text_block
DecomposeParagraph ==
    /\ pc = "paragraphs" /\ paragraphs # <<>>
    /\ paragraph # <<>>
    /\ ~fits(prospective_chunk)
    /\ oversized(paragraph)
    /\ final_chunks' = finalize_chunk(current_chunk, final_chunks)
    /\ sentences' = split_into_sentences(paragraph)
    /\ sub_chunks' = <<>>
    /\ current_sub_chunk' = <<>>
    /\ paragraphs' = Tail(paragraphs)
    /\ pc' = "sentences"
    /\ UNCHANGED <<cli, text, params, chapters, current_chunk, line_level>>

\* line 82: the end of a chapter
EndChapter ==
    /\ pc = "paragraphs" /\ paragraphs = <<>>
    /\ final_chunks' = finalize_chunk(current_chunk, final_chunks)
    /\ pc' = "chapters"
    /\ UNCHANGED <<cli, text, params, chapters, paragraphs, current_chunk,
                   sentence_level, line_level>>

(***************************************************************************)
(* split_oversized_text_block.                                             *)
(***************************************************************************)
sentence == Head(sentences)
prospective_sub_chunk ==
    IF current_sub_chunk = <<>> THEN sentence
    ELSE current_sub_chunk \o <<" ">> \o sentence

\* lines 94-96
AcceptSentence ==
    /\ pc = "sentences" /\ sentences # <<>>
    /\ fits(prospective_sub_chunk)
    /\ current_sub_chunk' = prospective_sub_chunk
    /\ sentences' = Tail(sentences)
    /\ UNCHANGED <<cli, text, params, pc, paragraph_level, sub_chunks, line_level>>

\* lines 97-99, 103-104
StartSentence ==
    /\ pc = "sentences" /\ sentences # <<>>
    /\ ~fits(prospective_sub_chunk)
    /\ ~oversized(sentence)
    /\ sub_chunks' = finalize_sub_chunk(current_sub_chunk, sub_chunks)
    /\ current_sub_chunk' = sentence
    /\ sentences' = Tail(sentences)
    /\ UNCHANGED <<cli, text, params, pc, paragraph_level, line_level>>

\* lines 97-100 and 109: the sentence goes to split_by_lines
DecomposeSentence ==
    /\ pc = "sentences" /\ sentences # <<>>
    /\ ~fits(prospective_sub_chunk)
    /\ oversized(sentence)
    /\ sub_chunks' = finalize_sub_chunk(current_sub_chunk, sub_chunks)
    /\ lines' = split(sentence, <<"\n">>)
    /\ line_chunks' = <<>>
    /\ current_line_chunk' = <<>>
    /\ sentences' = Tail(sentences)
    /\ pc' = "lines"
    /\ UNCHANGED <<cli, text, params, paragraph_level, current_sub_chunk>>

\* lines 105-106, then 78-79 in the caller: final_chunks.extend(sub_chunks)
\* (EndSentences_overwriting: final_chunks = sub_chunks)
EndSentences_overwriting ==
    /\ pc = "sentences" /\ sentences = <<>>
    /\ sub_chunks' = finalize_sub_chunk(current_sub_chunk, sub_chunks)
    /\ final_chunks' = finalize_sub_chunk(current_sub_chunk, sub_chunks)
    /\ current_chunk' = <<>>
    /\ pc' = "paragraphs"
    /\ UNCHANGED <<cli, text, params, chapters, paragraphs, sentences, current_sub_chunk,
                   line_level>>
EndSentences ==
    /\ pc = "sentences" /\ sentences = <<>>
    /\ sub_chunks' = finalize_sub_chunk(current_sub_chunk, sub_chunks)
    /\ final_chunks' = final_chunks \o finalize_sub_chunk(current_sub_chunk, sub_chunks)
    /\ current_chunk' = <<>>
    /\ pc' = "paragraphs"
    /\ UNCHANGED <<cli, text, params, chapters, paragraphs, sentences, current_sub_chunk,
                   line_level>>

(***************************************************************************)
(* split_by_lines.                                                         *)
(***************************************************************************)
line == strip(Head(lines))
prospective_line_chunk ==
    IF current_line_chunk = <<>> THEN line
    ELSE current_line_chunk \o <<"\n">> \o line

\* lines 117-118
SkipLine ==
    /\ pc = "lines" /\ lines # <<>>
    /\ line = <<>>
    /\ lines' = Tail(lines)
    /\ UNCHANGED <<cli, text, params, pc, paragraph_level, sentence_level,
                   current_line_chunk, line_chunks>>

\* lines 119-121
AcceptLine ==
    /\ pc = "lines" /\ lines # <<>>
    /\ line # <<>>
    /\ fits(prospective_line_chunk)
    /\ current_line_chunk' = prospective_line_chunk
    /\ lines' = Tail(lines)
    /\ UNCHANGED <<cli, text, params, pc, paragraph_level, sentence_level, line_chunks>>

\* lines 122-124 (StartLine_merging: current_line_chunk = prospective_chunk)
StartLine_merging ==
    /\ pc = "lines" /\ lines # <<>>
    /\ line # <<>>
    /\ ~fits(prospective_line_chunk)
    /\ line_chunks' = finalize_line_chunk(current_line_chunk, line_chunks)
    /\ current_line_chunk' = prospective_line_chunk
    /\ lines' = Tail(lines)
    /\ UNCHANGED <<cli, text, params, pc, paragraph_level, sentence_level>>
StartLine ==
    /\ pc = "lines" /\ lines # <<>>
    /\ line # <<>>
    /\ ~fits(prospective_line_chunk)
    /\ line_chunks' = finalize_line_chunk(current_line_chunk, line_chunks)
    /\ current_line_chunk' = line
    /\ lines' = Tail(lines)
    /\ UNCHANGED <<cli, text, params, pc, paragraph_level, sentence_level>>

\* lines 125-126, then 101-102 in the caller: sub_chunks.extend(line_chunks)
EndLines ==
    /\ pc = "lines" /\ lines = <<>>
    /\ line_chunks' = finalize_line_chunk(current_line_chunk, line_chunks)
    /\ sub_chunks' = sub_chunks \o finalize_line_chunk(current_line_chunk, line_chunks)
    /\ current_sub_chunk' = <<>>
    /\ pc' = "sentences"
    /\ UNCHANGED <<cli, text, params, paragraph_level, sentences, lines, current_line_chunk>>

Next ==
    \/ Start \/ SkipChapter \/ EnterChapter \/ Return
    \/ SkipParagraph \/ AcceptParagraph \/ StartParagraph \/ DecomposeParagraph
    \/ EndChapter
    \/ AcceptSentence \/ StartSentence \/ DecomposeSentence \/ EndSentences
    \/ SkipLine \/ AcceptLine \/ StartLine \/ EndLines

Spec == Init /\ [][Next]_vars

(***************************************************************************)
(* Properties of smart_chunker.                                            *)
(***************************************************************************)
RECURSIVE nonspace(_)
nonspace(s) ==
    IF s = <<>> THEN <<>>
    ELSE (IF isspace(Head(s)) THEN <<>> ELSE <<Head(s)>>) \o nonspace(Tail(s))

Chunks(out) == {out[i] : i \in 1..Len(out)}
Emitted == Chunks(final_chunks) \cup Chunks(sub_chunks) \cup Chunks(line_chunks)
HasNewline(chunk) == \E k \in 1..Len(chunk) : chunk[k] = "\n"
NoCleaning == title_token_limit = 0 /\ line_start_prefix = <<>>

\* C1: every chunk in the output list of any of the three levels has a size,
\* under the chosen metric and measured on the cleaned chunk, of at least
\* min_size
C1_MinSizeFloor ==
    \A chunk \in Emitted : size_of(size_func, chunk) >= min_size

\* a run with a floor and a cleaning policy that reached the line level, kept
\* chunks and lost part of the document
C1_Witness ==
    /\ pc = "done" /\ min_size > 0 /\ ~NoCleaning
    /\ final_chunks # <<>> /\ line_chunks # <<>>
    /\ nonspace(concat(final_chunks)) # nonspace(text)

\* C2: at the line level a line whose size alone exceeds max_size becomes the
\* current chunk by itself, and an oversized current chunk that cleaning
\* leaves alone and that reaches min_size is appended, as it is, to the
\* line chunks by the next step that reads a line or ends the loop
C2_OversizedLineWhole ==
    [][ /\ (pc = "lines" /\ lines # <<>> /\ line # <<>> /\ oversized(line))
            => current_line_chunk' = line
        /\ ( /\ pc = "lines" /\ current_line_chunk # <<>>
             /\ oversized(current_line_chunk)
             /\ processed_chunk(current_line_chunk) = current_line_chunk
             /\ size_of(size_func, current_line_chunk) >= min_size
             /\ (lines = <<>> \/ line # <<>>) )
            => line_chunks' = Append(line_chunks, current_line_chunk)
      ]_vars

\* an oversized line was emitted next to another line's chunk
C2_Witness ==
    /\ Len(line_chunks) >= 2
    /\ \E i \in 1..Len(line_chunks) :
          oversized(line_chunks[i]) /\ Len(line_chunks[i]) >= 2

\* C3: a paragraph of size exactly max_size stays at the paragraph level: the
\* step that reads it does not enter the sentence level and makes it the
\* current chunk, alone or appended whole to the current chunk; and with
\* min_size = 0 and no cleaning a step at the paragraph level either keeps
\* the current chunk as the head of the next one, emitting nothing, or
\* appends it, whole and once, to the output
C3_ExactFitStaysWhole ==
    [][ /\ ( /\ pc = "paragraphs" /\ paragraphs # <<>> /\ paragraph # <<>>
             /\ size_of(size_func, paragraph) = max_size )
            => /\ pc' = "paragraphs"
               /\ sentences' = sentences
               /\ \/ current_chunk' = paragraph
                  \/ current_chunk' = current_chunk \o PARAGRAPH_DELIMITER \o paragraph
        /\ (pc = "paragraphs" /\ current_chunk # <<>> /\ min_size = 0 /\ NoCleaning)
            => \/ /\ startswith(current_chunk', current_chunk)
                  /\ final_chunks' = final_chunks
               \/ final_chunks' = Append(final_chunks, current_chunk)
      ]_vars

\* a paragraph of size exactly max_size was reached with a non-empty current
\* chunk and is now the current chunk
C3_Witness ==
    /\ pc = "paragraphs" /\ min_size = 0 /\ NoCleaning
    /\ sub_chunks = <<>> /\ final_chunks # <<>>
    /\ current_chunk # <<>>
    /\ size_of(size_func, current_chunk) = max_size
    /\ index(current_chunk, PARAGRAPH_DELIMITER) = 0

\* what the run has emitted followed by what it has still to read, in
\* document order
Content ==
    CASE pc = "start" -> text
      [] pc = "chapters" -> concat(final_chunks) \o concat(chapters)
      [] pc = "paragraphs" ->
            concat(final_chunks) \o current_chunk \o concat(paragraphs) \o concat(chapters)
      [] pc = "sentences" ->
            concat(final_chunks) \o concat(sub_chunks) \o current_sub_chunk
            \o concat(sentences) \o concat(paragraphs) \o concat(chapters)
      [] pc = "lines" ->
            concat(final_chunks) \o concat(sub_chunks) \o concat(line_chunks)
            \o current_line_chunk \o concat(lines)
            \o concat(sentences) \o concat(paragraphs) \o concat(chapters)
      [] OTHER -> concat(final_chunks)

\* C4: with min_size = 0, no title limit and no prefix, the chunks emitted so
\* far followed by the text still to read hold the non-whitespace characters
\* of the document in their order, at every step and so on return
C4_ContentPreserved ==
    (min_size = 0 /\ NoCleaning) => nonspace(Content) = nonspace(text)

\* a run that emitted a paragraph-level chunk and then chunks of a paragraph
\* decomposed down to the line level
C4_Witness ==
    /\ pc = "done" /\ min_size = 0 /\ NoCleaning
    /\ line_chunks # <<>>
    /\ Len(final_chunks) > Len(sub_chunks)

AllLinesPrefixed(chunk) ==
    LET ls == split(chunk, <<"\n">>)
    IN  \A i \in 1..Len(ls) : startswith(strip(ls[i]), line_start_prefix)

\* C9: with a prefix and min_size = 0, every step that finalizes a non-empty
\* current chunk all of whose lines start with the prefix appends the empty
\* string to the output list of its level
C9_AllLinesRemovedKept ==
    [][ (line_start_prefix # <<>> /\ min_size = 0) =>
        /\ ( /\ pc = "paragraphs"
             /\ current_chunk # <<>> /\ AllLinesPrefixed(current_chunk)
             /\ (paragraphs = <<>> \/ (paragraph # <<>> /\ ~fits(prospective_chunk))) )
            => final_chunks' = Append(final_chunks, <<>>)
        /\ ( /\ pc = "sentences"
             /\ current_sub_chunk # <<>> /\ AllLinesPrefixed(current_sub_chunk)
             /\ (sentences = <<>> \/ ~fits(prospective_sub_chunk)) )
            => /\ sub_chunks' = Append(sub_chunks, <<>>)
               /\ sentences = <<>> => final_chunks' = final_chunks \o sub_chunks'
        /\ ( /\ pc = "lines"
             /\ current_line_chunk # <<>> /\ AllLinesPrefixed(current_line_chunk)
             /\ (lines = <<>> \/ (line # <<>> /\ ~fits(prospective_line_chunk))) )
            => /\ line_chunks' = Append(line_chunks, <<>>)
               /\ lines = <<>> => sub_chunks' = sub_chunks \o line_chunks'
      ]_vars

\* a run that returned the empty string for a paragraph-level chunk and for
\* a line-level chunk
C9_Witness ==
    /\ pc = "done" /\ line_start_prefix # <<>> /\ min_size = 0
    /\ Len(final_chunks) >= 2 /\ final_chunks[1] = <<>>
    /\ line_chunks # <<>> /\ line_chunks[Len(line_chunks)] = <<>>

(***************************************************************************)
(* split_into_sentences, called on its own.                                *)
(***************************************************************************)
SentenceChars == {"a", "A", ".", "?", " "}
SentenceTexts == UNION {[1..n -> SentenceChars] : n \in 0..MaxSentenceLen}

NoParams ==
    /\ max_size = 0 /\ min_size = 0 /\ size_func = "len"
    /\ title_token_limit = 0 /\ line_start_prefix = <<>>

InitSentences ==
    /\ options = NoOptions /\ selected = NotSelected
    /\ text \in SentenceTexts
    /\ NoParams
    /\ pc = "split_into_sentences"
    /\ Locals

\* lines 25-26
SplitIntoSentences ==
    /\ pc = "split_into_sentences"
    /\ sentences' = split_into_sentences(text)
    /\ pc' = "sentences_split"
    /\ UNCHANGED <<cli, text, params, paragraph_level, current_sub_chunk, sub_chunks,
                   line_level>>

SpecSentences == InitSentences /\ [][SplitIntoSentences]_vars

\* the split rule as stated: a whitespace character after '.', '?' or '!',
\* unless the character before it is a period that ends W.W. or Xx.
stated_break(t, i) ==
    /\ isspace(t[i])
    /\ i >= 2
    /\ t[i - 1] \in Terminal
    /\ ~( /\ t[i - 1] = "."
          /\ \/ /\ i >= 5
                /\ IsWordChar(t[i - 4]) /\ t[i - 3] = "." /\ IsWordChar(t[i - 2])
             \/ /\ i >= 4
                /\ t[i - 3] \in Upper /\ t[i - 2] \in Lower )

RECURSIVE stated_pieces(_, _, _)
stated_pieces(t, from, i) ==
    IF i > Len(t) THEN <<SubSeq(t, from, Len(t))>>
    ELSE IF stated_break(t, i)
         THEN <<SubSeq(t, from, i - 1)>> \o stated_pieces(t, i + 1, i + 1)
         ELSE stated_pieces(t, from, i + 1)

\* C5: the sentences returned are the trimmed, non-empty pieces of the text
\* cut at every whitespace character that follows '.', '?' or '!', except
\* after a period that ends W.W. or Xx.; so a '?' or '!' followed by
\* whitespace always cuts
C5_SplitRule ==
    pc = "sentences_split" => sentences = strip_nonempty(stated_pieces(text, 1, 1))

(***************************************************************************)
(* The two cleaning passes, each called on its own and then once more on   *)
(* its own result.                                                         *)
(***************************************************************************)
ChunkPieces == {<<"a">>, <<".">>, <<"#">>, <<" ">>, <<"\n">>, <<"\n", "\n">>}
CleanerChunks == PieceTexts(ChunkPieces)

InitCleaner ==
    /\ options = NoOptions /\ selected = NotSelected
    /\ text = <<>>
    /\ max_size = 0 /\ min_size = 0
    /\ \/ /\ pc = "remove_leading_title"
          /\ title_token_limit \in 0..MaxTitleLimit
          /\ size_func \in SizeFuncs
          /\ line_start_prefix = <<>>
       \/ /\ pc = "remove_lines_starting_with"
          /\ line_start_prefix \in {<<>>, <<"#">>, <<"#", "a">>}
          /\ title_token_limit = 0
          /\ size_func = "len"
    /\ current_chunk \in CleanerChunks
    /\ chapters = <<>> /\ paragraphs = <<>> /\ final_chunks = <<>>
    /\ sentences = <<>> /\ current_sub_chunk = <<>> /\ sub_chunks = <<>>
    /\ lines = <<>> /\ current_line_chunk = <<>> /\ line_chunks = <<>>

\* lines 39-48
RemoveLeadingTitle ==
    /\ pc = "remove_leading_title"
    /\ final_chunks' = <<remove_leading_title(current_chunk, title_token_limit, size_func)>>
    /\ pc' = "title_removed"
    /\ UNCHANGED <<cli, text, params, chapters, paragraphs, current_chunk,
                   sentence_level, line_level>>

RemoveLeadingTitleAgain ==
    /\ pc = "title_removed"
    /\ final_chunks' = Append(final_chunks,
            remove_leading_title(final_chunks[1], title_token_limit, size_func))
    /\ pc' = "title_removed_twice"
    /\ UNCHANGED <<cli, text, params, chapters, paragraphs, current_chunk,
                   sentence_level, line_level>>

\* lines 28-36
RemoveLinesStartingWith ==
    /\ pc = "remove_lines_starting_with"
    /\ final_chunks' = <<remove_lines_starting_with(current_chunk, line_start_prefix)>>
    /\ pc' = "lines_removed"
    /\ UNCHANGED <<cli, text, params, chapters, paragraphs, current_chunk,
                   sentence_level, line_level>>

RemoveLinesStartingWithAgain ==
    /\ pc = "lines_removed"
    /\ final_chunks' = Append(final_chunks,
            remove_lines_starting_with(final_chunks[1], line_start_prefix))
    /\ pc' = "lines_removed_twice"
    /\ UNCHANGED <<cli, text, params, chapters, paragraphs, current_chunk,
                   sentence_level, line_level>>

NextCleaner ==
    \/ RemoveLeadingTitle \/ RemoveLeadingTitleAgain
    \/ RemoveLinesStartingWith \/ RemoveLinesStartingWithAgain

SpecCleaner == InitCleaner /\ [][NextCleaner]_vars

\* the title rule as stated, for the chunk c
TitleIsRemoved(c) ==
    /\ title_token_limit > 0
    /\ \E p \in 1..(Len(c) - 1) :
          /\ c[p] = "\n" /\ c[p + 1] = "\n"
          /\ \A q \in 1..(p - 1) : ~(c[q] = "\n" /\ c[q + 1] = "\n")
          /\ LET before == strip(SubSeq(c, 1, p - 1)) IN
                /\ before # <<>>
                /\ \A k \in 1..Len(before) : before[k] \notin {".", "?", "!"}
                /\ size_of(size_func, before) <= title_token_limit

AfterFirstBreak(c) ==
    LET p == CHOOSE p \in 1..(Len(c) - 1) :
                /\ c[p] = "\n" /\ c[p + 1] = "\n"
                /\ \A q \in 1..(p - 1) : ~(c[q] = "\n" /\ c[q + 1] = "\n")
    IN  lstrip(SubSeq(c, p + 2, Len(c)))

RECURSIVE Surviving(_, _, _)
Surviving(ls, p, i) ==
    IF i > Len(ls) THEN <<>>
    ELSE LET content == strip(ls[i]) IN
         (IF p # <<>> /\ Len(content) >= Len(p) /\ \A k \in 1..Len(p) : content[k] = p[k]
          THEN <<>> ELSE <<ls[i]>>)
         \o Surviving(ls, p, i + 1)

IntOptions == {None} \cup {Given(n) : n \in 0..MaxSizeLimit}

InitCli ==
    /\ options \in [chunk_size : IntOptions, max_tokens : IntOptions,
                    min_size : {0, MinFloor}, min_tokens : {0, MinFloor},
                    remove_title : {0}, remove_line_start : {None}]
    /\ selected = NotSelected
    /\ text \in Texts
    /\ NoParams
    /\ pc = "parse_args"
    /\ Locals

\* lines 155-157, 179: exactly one of -s and -t is given
ParseArgs ==
    /\ pc = "parse_args"
    /\ (options.chunk_size = None) # (options.max_tokens = None)
    /\ pc' = "select"
    /\ UNCHANGED <<cli, text, params, paragraph_level, sentence_level, line_level>>

\* lines 155-157, 179: argparse refuses both and neither
UsageError ==
    /\ pc = "parse_args"
    /\ (options.chunk_size = None) = (options.max_tokens = None)
    /\ pc' = "exit_2"
    /\ UNCHANGED <<cli, text, params, paragraph_level, sentence_level, line_level>>

\* lines 185-188: `if args.max_tokens:` is false for None and for 0
SelectMetric ==
    /\ pc = "select"
    /\ selected' =
          IF options.max_tokens # None /\ options.max_tokens # Given(0)
          THEN [size_func |-> "estimate_token_count",
                max_size |-> options.max_tokens,
                min_size |-> options.min_tokens]
          ELSE [size_func |-> "len",
                max_size |-> options.chunk_size,
                min_size |-> options.min_size]
    /\ pc' = "call"
    /\ UNCHANGED <<options, text, params, paragraph_level, sentence_level, line_level>>

\* line 206
CallSmartChunker ==
    /\ pc = "call"
    /\ selected.max_size # None
    /\ max_size' = selected.max_size[1]
    /\ min_size' = selected.min_size
    /\ size_func' = selected.size_func
    /\ title_token_limit' = options.remove_title
    /\ line_start_prefix' = options.remove_line_start
    /\ pc' = "start"
    /\ UNCHANGED <<cli, text, paragraph_level, sentence_level, line_level>>

\* lines 206, 72, 230-231: with max_size None the first comparison of a size
\* with it raises TypeError, which main reports before it exits with 1
CallRaisesTypeError ==
    /\ pc = "call"
    /\ selected.max_size = None
    /\ strip(replace_crlf(text)) # <<>>
    /\ pc' = "exit_1"
    /\ UNCHANGED <<cli, text, params, paragraph_level, sentence_level, line_level>>

\* lines 206, 63-66, 83: a blank text has no paragraph to compare
CallOnBlankText ==
    /\ pc = "call"
    /\ selected.max_size = None
    /\ strip(replace_crlf(text)) = <<>>
    /\ final_chunks' = <<>>
    /\ pc' = "done"
    /\ UNCHANGED <<cli, text, params, chapters, paragraphs, current_chunk,
                   sentence_level, line_level>>

NextCli ==
    \/ ParseArgs \/ UsageError \/ SelectMetric
    \/ CallSmartChunker \/ CallRaisesTypeError \/ CallOnBlankText
    \/ Next

SpecCli == InitCli /\ [][NextCli]_vars

\* C10: once the metric is selected, a given -t means the token metric with
\* max_size = max_tokens and min_size = min_tokens, and a given -s means
\* the character count with max_size = chunk_size and min_size = min_size
C10_MetricFollowsOption ==
    pc \notin {"parse_args", "select", "exit_2"} =>
        /\ options.max_tokens # None =>
              selected = [size_func |-> "estimate_token_count",
                          max_size |-> options.max_tokens,
                          min_size |-> options.min_tokens]
        /\ options.chunk_size # None =>
              selected = [size_func |-> "len",
                          max_size |-> options.chunk_size,
                          min_size |-> options.min_size]

=============================================================================
